---- MODULE Spec2Model ----
(***************************************************************************)
(* Model of src/parse_influx.py: the guarded job parse_to_influx (fetch,   *)
(* datetime check, flattening, write, freshness annotation) and the        *)
(* scheduling done by the __main__ block (registration, schedule.run_all,  *)
(* the run_pending / sleep loop).                                          *)
(*                                                                         *)
(* Time is counted in quanta of 15 minutes, the shortest cadence of the    *)
(* program.  The loop polls once per second, i.e. many times per quantum:  *)
(* a sleep either stays within the current quantum or crosses into the     *)
(* next one.  Scheduler times are kept relative to the current clock       *)
(* reading (next_run - now), datetimes of fetched records relative to the  *)
(* start of the run that fetched them.                                     *)
(***************************************************************************)
EXTENDS Integers, Sequences, FiniteSets, TLC

VARIABLES jobs, pc, queue, cur, run, slow

vars == <<jobs, pc, queue, cur, run, slow>>

(***************************************************************************)
(* Program constants, in quanta of 15 minutes.                             *)
(***************************************************************************)
QuarterHour == 1
TwelveHours == 48
TwoHours == 8

(***************************************************************************)
(* Bounds of the model.                                                    *)
(***************************************************************************)
\* longest duration of one job run, in quanta
MaxRunTime == 1
\* number of job runs of a behaviour that take a non-zero number of quanta
MaxSlowRuns == 1
\* largest number of records in a fetched list
MaxBatch == 2
\* oldest datetime of a fetched record, in quanta before the start of the run
MaxAge == 12

(***************************************************************************)
(* Python values, tagged with their type.                                  *)
(***************************************************************************)
None == [t |-> "NoneType"]
Str(s) == [t |-> "str", v |-> s]
Num(n) == [t |-> "int", v |-> n]
\* a native datetime.datetime; aware = it carries a tzinfo
Dt(n, aware) == [t |-> "datetime", v |-> n, tz |-> aware]
Dict(f) == [t |-> "dict", v |-> f]
List(s) == [t |-> "list", v |-> s]
Tuple(s) == [t |-> "tuple", v |-> s]
CancelJob == [t |-> "CancelJob"]

\* variant of Truthy: only None is false (an `is None` test)
Truthy_only_none(x) == x.t # "NoneType"

\* Python truth value of x (the `not res` and `if target_datetime` tests)
Truthy(x) ==
  CASE x.t = "NoneType" -> FALSE
    [] x.t = "str" -> x.v # ""
    [] x.t = "int" -> x.v # 0
    [] x.t = "dict" -> DOMAIN x.v # {}
    [] x.t \in {"list", "tuple"} -> Len(x.v) > 0
    [] OTHER -> TRUE

(***************************************************************************)
(* String helpers (Python str.split and the `in` substring test).          *)
(***************************************************************************)
\* position of the first occurrence of sep in s, 0 when there is none
Find(s, sep) ==
  LET hits == {i \in 1..(Len(s) - Len(sep) + 1) : SubSeq(s, i, i + Len(sep) - 1) = sep}
  IN IF hits = {} THEN 0 ELSE CHOOSE i \in hits : \A k \in hits : i <= k

\* `sub in s` on strings
Contains(sub, s) == Find(s, sub) # 0

RECURSIVE Split(_, _)
\* s.split(sep)
Split(s, sep) ==
  LET i == Find(s, sep)
  IN IF i = 0 THEN <<s>>
     ELSE <<SubSeq(s, 1, i - 1)>> \o Split(SubSeq(s, i + Len(sep), Len(s)), sep)

(***************************************************************************)
(* flatten(var, reducer="underscore") of flatten_dict.                     *)
(***************************************************************************)
\* variant of underscore: the keys are joined by a dot
underscore_dot(k1, k2) == IF k1.t = "NoneType" THEN k2 ELSE k1.v \o "." \o k2

\* underscore_reducer(k1, k2): k2 at the top level, else k1_k2
underscore(k1, k2) == IF k1.t = "NoneType" THEN k2 ELSE k1.v \o "_" \o k2

RECURSIVE FlatItems(_, _)
\* the (flat key, leaf value) pairs of the mapping d below the key path parent
FlatItems(d, parent) ==
  UNION { IF d[k].t = "dict"
          THEN FlatItems(d[k].v, Str(underscore(parent, k)))
          ELSE {<<underscore(parent, k), d[k]>>} : k \in DOMAIN d }

flatten(var) ==
  LET items == FlatItems(var.v, None)
      keys == {it[1] : it \in items}
  IN Dict([k \in keys |-> (CHOOSE it \in items : it[1] = k)[2]])

(***************************************************************************)
(* pd.DataFrame(reduced_list).set_index("datetime"): one row per record,   *)
(* indexed by its datetime, the other keys being its columns.              *)
(***************************************************************************)
set_index(reduced_list) ==
  [i \in 1..Len(reduced_list) |->
     [index |-> reduced_list[i].v["datetime"],
      columns |-> [k \in (DOMAIN reduced_list[i].v) \ {"datetime"} |-> reduced_list[i].v[k]]]]

(***************************************************************************)
(* parse_to_influx.                                                        *)
(*                                                                         *)
(* The collaborators (arrow, the parser registry, the parser, flatten,     *)
(* the database client, stdout) are the environment of a run:              *)
(*   env.fault  the call that raises in this run, "none" for none          *)
(*   env.res    what the parser returns                                    *)
(*   env.took   the quanta that pass between the start of the run and the  *)
(*              reading of arrow.utcnow()                                  *)
(***************************************************************************)
verbose == FALSE

Faults == {"none", "lookup", "fetch", "flatten", "write", "print"}

\* arrow.get(target_datetime).datetime: the strings arrow parses
ArrowParses(s) == s \in {"2018-05-30 15:00"}

\* the locals and effects of a run before its first statement
Blank ==
  [exc |-> "none", caught |-> "none", ret |-> None,
   target_datetime |-> None, key |-> <<>>, args |-> <<>>, called |-> FALSE,
   writes |-> <<>>, first_dt |-> None, last_dt |-> None,
   max_dt_warning |-> "<unbound>", printed |-> ""]

\* max(dts) and min(dts) raise TypeError on naive and aware datetimes mixed
\* (and on a datetime next to a value of another type)
Comparable(dts) ==
  \A i, k \in 1..Len(dts) :
     dts[i].t = "datetime" /\ dts[k].t = "datetime" /\ dts[i].tz = dts[k].tz
max(dts) == dts[CHOOSE i \in 1..Len(dts) : \A k \in 1..Len(dts) : dts[k].v <= dts[i].v]
min(dts) == dts[CHOOSE i \in 1..Len(dts) : \A k \in 1..Len(dts) : dts[i].v <= dts[k].v]

\* arrow.get(dt).to("UTC"): a naive datetime is read as UTC
to_utc(dt) == Dt(dt.v, TRUE)

\* variant of series: the zone is appended for "exchange" only
series_exact(zone, data_type) ==
  IF data_type = "exchange" THEN data_type \o zone ELSE data_type

\* the name of the measurement the batch is written to (lines 115-118)
series(zone, data_type) ==
  IF Contains("exchange", data_type) THEN data_type \o zone ELSE data_type

\* variant of parser_args: the zone is passed whole
parser_args_whole(zone, data_type) == <<zone>>

\* variant of parser_args: the zone is split for "exchange" only
parser_args_exact(zone, data_type) ==
  IF data_type = "exchange" THEN Split(zone, "->") ELSE <<zone>>

\* the positional arguments of the parser (lines 79-82)
parser_args(zone, data_type) ==
  IF data_type \in {"exchange", "exchangeForecast"} THEN Split(zone, "->") ELSE <<zone>>

\* e["datetime"] succeeds
HasDatetime(e) == e.t = "dict" /\ "datetime" \in DOMAIN e.v

\* variant of warning: stale from two hours on
warning_from_2h(target_datetime, last_dt, utcnow) ==
  IF ~Truthy(target_datetime)
  THEN IF utcnow - last_dt.v >= TwoHours
       THEN " :( >2h from now !!!"
       ELSE " -- OK, <2h from now :)"
  ELSE ""

\* variant of warning: staleness is assessed for historical queries as well
warning_any_target(target_datetime, last_dt, utcnow) ==
  IF utcnow - last_dt.v > TwoHours
  THEN " :( >2h from now !!!"
  ELSE " -- OK, <2h from now :)"

\* the annotation of lines 122-128
warning(target_datetime, last_dt, utcnow) ==
  IF ~Truthy(target_datetime)
  THEN IF utcnow - last_dt.v > TwoHours
       THEN " :( >2h from now !!!"
       ELSE " -- OK, <2h from now :)"
  ELSE ""

\* variant of write_and_report: the batch is written only when it is fresh
write_if_fresh(zone, data_type, env, dts, df, r) ==
  IF ~Comparable(dts) THEN [r EXCEPT !.exc = "TypeError"]
  ELSE
    LET a == [r EXCEPT !.last_dt = to_utc(max(dts)),
                       !.first_dt = to_utc(min(dts)),
                       !.max_dt_warning =
                          warning(r.target_datetime, to_utc(max(dts)), env.took)]
    IN IF a.max_dt_warning = " :( >2h from now !!!"
       THEN [a EXCEPT !.printed = "Fetched"]
       ELSE IF env.fault = "write" THEN [a EXCEPT !.exc = "WriteError"]
       ELSE [a EXCEPT !.writes = <<[points |-> df,
                                    measurement |-> series(zone, data_type)]>>,
                      !.printed = "Fetched"]

\* variant of write_and_report: the batch is written after the report
report_then_write(zone, data_type, env, dts, df, r) ==
  IF ~Comparable(dts) THEN [r EXCEPT !.exc = "TypeError"]
  ELSE
    LET a == [r EXCEPT !.last_dt = to_utc(max(dts)),
                       !.first_dt = to_utc(min(dts)),
                       !.max_dt_warning =
                          warning(r.target_datetime, to_utc(max(dts)), env.took)]
    IN IF env.fault = "print" THEN [a EXCEPT !.exc = "OSError"]
       ELSE IF env.fault = "write"
            THEN [a EXCEPT !.exc = "WriteError", !.printed = "Fetched"]
            ELSE [a EXCEPT !.writes = <<[points |-> df,
                                         measurement |-> series(zone, data_type)]>>,
                           !.printed = "Fetched"]

\* lines 112-145: write, freshness, log
write_and_report(zone, data_type, env, dts, df, r) ==
  IF env.fault = "write" THEN [r EXCEPT !.exc = "WriteError"]
  ELSE
    LET w == [r EXCEPT !.writes = <<[points |-> df, measurement |-> series(zone, data_type)]>>]
    IN IF ~Comparable(dts) THEN [w EXCEPT !.exc = "TypeError"]
       ELSE
         LET a == [w EXCEPT !.last_dt = to_utc(max(dts)),
                            !.first_dt = to_utc(min(dts)),
                            !.max_dt_warning =
                               warning(r.target_datetime, to_utc(max(dts)), env.took)]
         IN IF env.fault = "print" THEN [a EXCEPT !.exc = "OSError"]
            ELSE [a EXCEPT !.printed = IF verbose THEN "parser result:" ELSE "Fetched"]

\* variant of native: only the first record is checked
native_first(dts) == dts[1].t = "datetime"

\* the assertion of lines 104-106
native(dts) == \A i \in 1..Len(dts) : dts[i].t = "datetime"

\* lines 85-114: empty result, datetime check, flattening, data frame
normalize(zone, data_type, env, r) ==
  LET res == env.res IN
  IF ~Truthy(res)
  THEN [r EXCEPT !.printed = "Error: parser returned nothing"]
  ELSE
    LET res_list == IF res.t \in {"list", "tuple"} THEN res.v ELSE <<res>>
    IN IF \E i \in 1..Len(res_list) : ~HasDatetime(res_list[i])
       THEN [r EXCEPT !.printed = "Parser output lacks datetime key"]
       ELSE
         LET dts == [i \in 1..Len(res_list) |-> res_list[i].v["datetime"]]
         IN IF ~native(dts)
            THEN [r EXCEPT !.exc = "AssertionError"]
            ELSE IF env.fault = "flatten" THEN [r EXCEPT !.exc = "ValueError"]
            ELSE
              LET reduced_list == [i \in 1..Len(res_list) |-> flatten(res_list[i])]
              IN IF reduced_list = <<>>
                 THEN [r EXCEPT !.exc = "KeyError"]  \* no datetime column to index by
                 ELSE write_and_report(zone, data_type, env, dts,
                                       set_index(reduced_list), r)

\* the undecorated function, lines 74-145
job_func(zone, data_type, target_datetime, env) ==
  IF Truthy(target_datetime) /\ ~(target_datetime.t = "str" /\ ArrowParses(target_datetime.v))
  THEN [Blank EXCEPT !.exc = "ParserError", !.target_datetime = target_datetime]
  ELSE
    LET r0 == [Blank EXCEPT !.target_datetime =
                 IF Truthy(target_datetime) THEN Dt(0 - MaxAge, TRUE) ELSE target_datetime]
    IN IF env.fault = "lookup" THEN [r0 EXCEPT !.exc = "KeyError"]
       ELSE
         LET r1 == [r0 EXCEPT !.key = <<data_type, zone>>,
                              !.args = parser_args(zone, data_type), !.called = TRUE]
         IN IF env.fault = "fetch" THEN [r1 EXCEPT !.exc = "Exception"]
            ELSE normalize(zone, data_type, env, r1)

\* variant of wrapper: an `except Exception` that lets an AssertionError and
\* an OSError through
wrapper_narrow(cancel_on_failure, r) ==
  IF r.exc \notin {"none", "AssertionError", "OSError"}
  THEN [r EXCEPT !.exc = "none", !.caught = r.exc, !.printed = "traceback",
                 !.ret = IF cancel_on_failure THEN CancelJob ELSE None]
  ELSE r

\* variant of wrapper: CancelJob is returned whatever the policy
wrapper_cancels(cancel_on_failure, r) ==
  IF r.exc # "none"
  THEN [r EXCEPT !.exc = "none", !.caught = r.exc, !.printed = "traceback",
                 !.ret = CancelJob]
  ELSE r

\* catch_exceptions(cancel_on_failure)(job_func), lines 28-43
wrapper(cancel_on_failure, r) ==
  IF r.exc # "none"
  THEN [r EXCEPT !.exc = "none", !.caught = r.exc, !.printed = "traceback",
                 !.ret = IF cancel_on_failure THEN CancelJob ELSE None]
  ELSE r

\* the decorated parse_to_influx, lines 46-47
parse_to_influx(cancel_on_failure, zone, data_type, target_datetime, env) ==
  wrapper(cancel_on_failure, job_func(zone, data_type, target_datetime, env))

(***************************************************************************)
(* The inputs of the runs.                                                 *)
(***************************************************************************)
\* datetimes of fetched records lie on the hour, up to MaxAge quanta back
Ages == {a \in 1..MaxAge : a % (4 * QuarterHour) = 0}

\* what a record may carry under its datetime key
DtValues ==
  {Dt(0 - a, TRUE) : a \in Ages}
    \cup {Dt(0 - TwoHours, FALSE), Str("2018-07-03T14:38:00+00:00")}

Records ==
  {Dict([datetime |-> d, value |-> Num(100)]) : d \in DtValues}
    \cup {Dict([datetime |-> Dt(0 - TwoHours, TRUE),
                production |-> Dict([coal |-> Num(10), gas |-> Num(5)]),
                source |-> Str("entsoe.eu")]),
          Dict([value |-> Num(100)])}

\* what a parser may return
Results ==
  {None, List(<<>>), Dict(<<>>)}
    \cup Records
    \cup UNION {{List(s) : s \in [1..n -> Records]} : n \in 1..MaxBatch}
    \cup {Tuple(<<r>>) : r \in Records}

Envs == [fault : Faults, res : Results, took : 0..MaxRunTime]

\* one record that passes every check
GoodRecord == Dict([datetime |-> Dt(0 - TwoHours, TRUE), value |-> Num(100)])

\* the runs of the scheduled jobs: every failing call on a good batch, and
\* every kind of batch without a failing call
RunEnvs ==
  {e \in Envs :
     \/ e.res = List(<<GoodRecord>>)
     \/ /\ e.fault = "none"
        /\ e.res \in {None, List(<<>>), Dict(<<>>), GoodRecord,
                      Dict([value |-> Num(100)]),
                      List(<<GoodRecord, Dict([datetime |-> Str("2018-07-03T14:38:00+00:00"),
                                               value |-> Num(100)])>>),
                      List(<<GoodRecord, Dict([datetime |-> Dt(0 - TwoHours, FALSE),
                                               value |-> Num(100)])>>)}}

data_types ==
  {"production", "exchange", "exchangeForecast", "price", "consumption",
   "generationForecast", "consumptionForecast"}

\* target_datetime: unset, empty, a string arrow parses, one it does not
Targets == {None, Str(""), Str("2018-05-30 15:00"), Str("yesterday-ish")}

(***************************************************************************)
(* The jobs registered by the __main__ block, in registration order.       *)
(***************************************************************************)
exchange_zones == <<"AT->CH", "AT->CZ", "AT->DE", "AT->HU", "AT->IT-NO", "AT->SI">>

\* the policy parse_to_influx is decorated with (line 46)
cancel_on_failure == FALSE

\* schedule.every(interval).do(parse_to_influx, zone, data_type, None):
\* no run yet, the first one due one interval after the registration
do(zone, data_type, interval, cancel) ==
  [zone |-> zone, data_type |-> data_type, target_datetime |-> None,
   interval |-> interval, cancel_on_failure |-> cancel,
   last_run |-> None, next_run |-> interval]

RECURSIVE exchange_jobs(_)
\* the loop of lines 167-176 over the zones from the i-th on
exchange_jobs(i) ==
  IF i > Len(exchange_zones) THEN <<>>
  ELSE <<do(exchange_zones[i], "exchange", TwelveHours, cancel_on_failure),
         do(exchange_zones[i], "exchangeForecast", TwelveHours, cancel_on_failure)>>
         \o exchange_jobs(i + 1)

\* a job list with the registration index of each job as its id
WithIds(js) == [i \in 1..Len(js) |-> [id |-> i] @@ js[i]]

Registered ==
  WithIds(<<do("AT", "production", TwelveHours, cancel_on_failure),
            do("AT", "generationForecast", TwelveHours, cancel_on_failure),
            do("AT", "consumptionForecast", TwelveHours, cancel_on_failure)>>
          \o exchange_jobs(1)
          \o <<do("AT", "price", QuarterHour, cancel_on_failure),
               do("AT", "consumption", QuarterHour, cancel_on_failure)>>)

(***************************************************************************)
(* The scheduler: schedule.run_all(), then run_pending() and sleep(1) for  *)
(* ever (lines 186-192).                                                   *)
(*   jobs   the registered jobs, next_run relative to the clock            *)
(*   pc     "run_all", "loop" (about to call run_pending), "run_pending",  *)
(*          "sleep", or "crashed" when an exception left the main thread   *)
(*   queue  the ids of the jobs the current pass still has to run          *)
(*   cur    the id of the job being run, 0 when none is                    *)
(*   run    the locals and effects of the run that has just returned       *)
(*   slow   the number of runs so far that took a quantum or more          *)
(***************************************************************************)
Ids(js) == {js[i].id : i \in 1..Len(js)}

IndexOf(js, id) == CHOOSE i \in 1..Len(js) : js[i].id = id

Remove(js, id) == SelectSeq(js, LAMBDA j : j.id # id)

\* the clock advances by d quanta
Elapse(js, d) ==
  [i \in 1..Len(js) |->
     [js[i] EXCEPT !.next_run = @ - d,
                   !.last_run = IF @ = None THEN None ELSE Dt(@.v - d, FALSE)]]

\* job.should_run: now >= next_run
should_run(job) == job.next_run <= 0

\* variant of SortByNextRun: the jobs at the positions S in their order in js
SortByPosition(js, S) ==
  [p \in 1..Cardinality(S) |->
     js[CHOOSE i \in S : Cardinality({k \in S : k < i}) = p - 1].id]

\* sorted() of the jobs at the positions S: by next_run, and stable, so that
\* jobs of equal next_run keep their order in js
SortByNextRun(js, S) ==
  LET before(i) == {k \in S : \/ js[k].next_run < js[i].next_run
                              \/ js[k].next_run = js[i].next_run /\ k < i}
  IN [p \in 1..Cardinality(S) |->
        js[CHOOSE i \in S : Cardinality(before(i)) = p - 1].id]

\* the jobs a run_pending() call runs, in the order it runs them
runnable_jobs(js) == SortByNextRun(js, {i \in 1..Len(js) : should_run(js[i])})

\* variant of all_jobs: only the due jobs
all_jobs_due(js) == runnable_jobs(js)

\* the jobs a run_all() call runs: self.jobs[:]
all_jobs(js) == [i \in 1..Len(js) |-> js[i].id]

NoRun == [job |-> 0, zone |-> "", data_type |-> "", cancel_on_failure |-> FALSE,
          given |-> None, env |-> [fault |-> "none", res |-> None, took |-> 0],
          pass |-> ""] @@ Blank

Init ==
  /\ jobs = Registered
  /\ pc = "run_all"
  /\ queue = all_jobs(Registered)
  /\ cur = 0
  /\ run = NoRun
  /\ slow = 0

\* variant of Start: the next job of the pass is started while one is running
Start_overlapping ==
  /\ pc \in {"run_all", "run_pending"}
  /\ queue # <<>>
  /\ cur' = Head(queue)
  /\ queue' = Tail(queue)
  /\ run' = NoRun
  /\ UNCHANGED <<jobs, pc, slow>>

\* _run_job(job) is entered for the next job of the pass
Start ==
  /\ pc \in {"run_all", "run_pending"}
  /\ cur = 0
  /\ queue # <<>>
  /\ cur' = Head(queue)
  /\ queue' = Tail(queue)
  /\ run' = NoRun
  /\ UNCHANGED <<jobs, pc, slow>>

\* variant of Returned: the return value of the job is ignored
Returned_ignores(js, i, r, took) ==
  LET later == Elapse(js, took)
  IN [later EXCEPT ![i].last_run = Dt(0, FALSE), ![i].next_run = js[i].interval]

\* variant of Returned: a job whose run failed is left due, to be retried
Returned_retries(js, i, r, took) ==
  LET later == Elapse(js, took)
      rescheduled == [later EXCEPT ![i].last_run = Dt(0, FALSE),
                                   ![i].next_run =
                                      IF r.caught # "none" THEN 0 ELSE js[i].interval]
  IN IF r.ret = CancelJob THEN Remove(rescheduled, js[i].id) ELSE rescheduled

\* the state after job.run() of the job at position i returned r, and
\* _run_job acted on the return value
Returned(js, i, r, took) ==
  LET later == Elapse(js, took)
      rescheduled == [later EXCEPT ![i].last_run = Dt(0, FALSE),
                                   ![i].next_run = js[i].interval]
  IN IF r.ret = CancelJob THEN Remove(rescheduled, js[i].id) ELSE rescheduled

\* job.run(): the job function runs to its end; an exception that leaves it
\* leaves run_all / run_pending and the main thread as well
Finish(env) ==
  /\ cur # 0
  /\ env.took > 0 => slow < MaxSlowRuns
  /\ LET i == IndexOf(jobs, cur)
         job == jobs[i]
         r == parse_to_influx(job.cancel_on_failure, job.zone, job.data_type,
                              job.target_datetime, env)
     IN /\ run' = [job |-> cur, zone |-> job.zone, data_type |-> job.data_type,
                   cancel_on_failure |-> job.cancel_on_failure,
                   given |-> job.target_datetime, env |-> env, pass |-> pc] @@ r
        /\ IF r.exc # "none"
           THEN /\ pc' = "crashed"
                /\ jobs' = Elapse(jobs, env.took)
                /\ queue' = <<>>
           ELSE /\ pc' = pc
                /\ jobs' = Returned(jobs, i, r, env.took)
                /\ queue' = queue
  /\ cur' = 0
  /\ slow' = IF env.took > 0 THEN slow + 1 ELSE slow

\* run_all() returns and the while loop is entered
RunAllDone ==
  /\ pc = "run_all" /\ cur = 0 /\ queue = <<>>
  /\ pc' = "loop"
  /\ run' = NoRun
  /\ UNCHANGED <<jobs, queue, cur, slow>>

\* run_pending() collects the due jobs
RunPending ==
  /\ pc = "loop"
  /\ queue' = runnable_jobs(jobs)
  /\ pc' = "run_pending"
  /\ run' = NoRun
  /\ UNCHANGED <<jobs, cur, slow>>

\* run_pending() returns
RunPendingDone ==
  /\ pc = "run_pending" /\ cur = 0 /\ queue = <<>>
  /\ pc' = "sleep"
  /\ run' = NoRun
  /\ UNCHANGED <<jobs, queue, cur, slow>>

\* time.sleep(1) ends within the quantum it began in
SleepWithin ==
  /\ pc = "sleep"
  /\ pc' = "loop"
  /\ UNCHANGED <<jobs, queue, cur, run, slow>>

\* time.sleep(1) ends in the next quantum
SleepAcross ==
  /\ pc = "sleep"
  /\ pc' = "loop"
  /\ jobs' = Elapse(jobs, 1)
  /\ UNCHANGED <<queue, cur, run, slow>>

Run == \E env \in RunEnvs : Finish(env)

Next ==
  \/ Start
  \/ Run
  \/ RunAllDone
  \/ RunPending
  \/ RunPendingDone
  \/ SleepWithin
  \/ SleepAcross

Spec == Init /\ [][Next]_vars

(***************************************************************************)
(* Direct calls of the decorated function with arbitrary arguments and     *)
(* every fetched result of Results, outside the scheduler.                 *)
(***************************************************************************)
Zones == {"AT", "AT->CH", "AT->IT-NO"}

\* the arguments and the environment of a call
Argument(cancel, zone, data_type, target_datetime, env) ==
  [job |-> 0, zone |-> zone, data_type |-> data_type,
   cancel_on_failure |-> cancel, given |-> target_datetime,
   env |-> env, pass |-> "call"]

CallInit ==
  /\ jobs = <<>>
  /\ pc = "call"
  /\ queue = <<>>
  /\ cur = 0
  /\ \E cancel \in BOOLEAN, zone \in Zones, data_type \in data_types,
        target_datetime \in Targets, env \in Envs :
          run = Argument(cancel, zone, data_type, target_datetime, env) @@ Blank
  /\ slow = 0

\* parse_to_influx(zone, data_type, target_datetime) is called and returns,
\* or raises
Call ==
  /\ pc = "call"
  /\ LET r == parse_to_influx(run.cancel_on_failure, run.zone, run.data_type,
                              run.given, run.env)
     IN /\ run' = Argument(run.cancel_on_failure, run.zone, run.data_type,
                           run.given, run.env) @@ r
        /\ pc' = IF r.exc # "none" THEN "crashed" ELSE "returned"
  /\ UNCHANGED <<jobs, queue, cur, slow>>

CallNext == Call

CallSpec == CallInit /\ [][CallNext]_vars

(***************************************************************************)
(* The scheduler over a job list in which each job is decorated with       *)
(* either policy of catch_exceptions.                                      *)
(***************************************************************************)
Policies(flags) ==
  WithIds(<<do("AT", "production", TwelveHours, flags[1]),
            do("AT->CH", "exchange", TwelveHours, flags[2]),
            do("AT", "price", QuarterHour, flags[3]),
            do("AT", "consumption", QuarterHour, flags[4])>>)

PolicyInit ==
  /\ \E flags \in [1..4 -> BOOLEAN] :
       /\ jobs = Policies(flags)
       /\ queue = all_jobs(Policies(flags))
  /\ pc = "run_all"
  /\ cur = 0
  /\ run = NoRun
  /\ slow = 0

PolicySpec == PolicyInit /\ [][Next]_vars

(***************************************************************************)
(* Properties.                                                             *)
(***************************************************************************)
\* the records of a fetched result, one for a single record
Batch(res) == IF res.t \in {"list", "tuple"} THEN res.v ELSE <<res>>

\* the record has no datetime key or a datetime that is no native timestamp
Malformed(rec) ==
  ~(rec.t = "dict" /\ "datetime" \in DOMAIN rec.v /\ rec.v["datetime"].t = "datetime")

\* the falsy results of a fetch
Empty(res) == res \in {None, List(<<>>), Tuple(<<>>), Dict(<<>>)}

\* a non-empty batch of records that all carry a native timestamp
Valid(res) ==
  /\ ~Empty(res)
  /\ \A i \in 1..Len(Batch(res)) : ~Malformed(Batch(res)[i])

\* the datetime of the newest record of a valid batch
Newest(res) ==
  LET ds == {Batch(res)[i].v["datetime"].v : i \in 1..Len(Batch(res))}
  IN CHOOSE d \in ds : \A e \in ds : e <= d

Stale == " :( >2h from now !!!"
Fresh == " -- OK, <2h from now :)"

\* C3: no exception of any stage leaves a guarded call of parse_to_influx:
\* the call returns to its caller, whatever failed in it.
C3_NoEscape == run.exc = "none" /\ pc # "crashed"

\* a call whose failure came after the write has returned
C3_Witness ==
  /\ pc = "returned"
  /\ run.caught = "TypeError"
  /\ run.writes # <<>>

\* C4: a batch with a record that lacks the datetime key, or whose datetime
\* is no native timestamp, ends with nothing written.
C4_NoPartialWrite ==
  (~Empty(run.env.res) /\ \E i \in 1..Len(Batch(run.env.res)) : Malformed(Batch(run.env.res)[i]))
    => run.writes = <<>>

\* a call without any failing collaborator fetched a valid record followed
\* by a malformed one
C4_Witness ==
  /\ pc = "returned"
  /\ run.env.fault = "none"
  /\ run.given = None
  /\ Len(Batch(run.env.res)) = 2
  /\ ~Malformed(Batch(run.env.res)[1])
  /\ Malformed(Batch(run.env.res)[2])
  /\ run.writes = <<>>

\* C5: the measurement written to is data_type followed by zone for exchange
\* and exchangeForecast, and data_type alone for the other data types.
C5_SeriesName ==
  \A i \in 1..Len(run.writes) :
     run.writes[i].measurement =
        IF run.data_type \in {"exchange", "exchangeForecast"}
        THEN run.data_type \o run.zone
        ELSE run.data_type

\* (exchangeForecast, AT->CH) was written to exchangeForecastAT->CH
C5_Witness ==
  /\ pc = "returned"
  /\ run.data_type = "exchangeForecast"
  /\ run.zone = "AT->CH"
  /\ Len(run.writes) = 1
  /\ run.writes[1].measurement = "exchangeForecastAT->CH"

\* the job of the run that has just returned, as the scheduler holds it
JobOfRun == jobs[IndexOf(jobs, run.job)]

\* C6: a run whose fetch returned a falsy result (None, an empty list, an
\* empty mapping) writes nothing, records no failure and requests no
\* cancellation, and its job stays registered with its next run one cadence
\* ahead, under either policy.
C6_EmptyResultNoOp ==
  (run.job # 0 /\ run.called /\ run.env.fault # "fetch" /\ Empty(run.env.res))
    => /\ run.writes = <<>>
       /\ run.caught = "none"
       /\ run.ret = None
       /\ pc = run.pass
       /\ run.job \in Ids(jobs)
       /\ JobOfRun.next_run = JobOfRun.interval

\* a job under the cancelling policy fetched an empty list in the polling
\* loop and is still registered
C6_Witness ==
  /\ run.job # 0
  /\ run.pass = "run_pending"
  /\ run.cancel_on_failure
  /\ run.called
  /\ run.env.fault = "none"
  /\ run.env.res = List(<<>>)
  /\ run.printed = "Error: parser returned nothing"
  /\ run.job \in Ids(jobs)

\* the run reached the freshness annotation of lines 122-128
Assessed == run.max_dt_warning # "<unbound>"

\* the age of the newest record when the run read the clock
AgeOfNewest == run.env.took - Newest(run.env.res)

\* C7: in a live run (target_datetime unset) the annotation is the stale
\* one exactly when the newest record is more than two hours older than the
\* current time, so not at exactly two hours.
C7_StaleAfterTwoHours ==
  (pc = "returned" /\ run.given = None /\ Assessed)
    => /\ run.max_dt_warning \in {Stale, Fresh}
       /\ run.max_dt_warning = Stale <=> AgeOfNewest > TwoHours

\* a live run whose newest record was exactly two hours old was found fresh
C7_Witness ==
  /\ pc = "returned"
  /\ run.given = None
  /\ Assessed
  /\ AgeOfNewest = TwoHours
  /\ run.max_dt_warning = Fresh

\* the run was given a target_datetime
Historical == run.given.t = "str" /\ run.given.v # ""

\* C8: a run with a target_datetime never annotates staleness: the
\* annotation is empty whenever the run gets to it.
C8_HistoricalNeverStale ==
  (pc = "returned" /\ Historical)
    => /\ run.max_dt_warning \notin {Stale, Fresh}
       /\ Assessed => run.max_dt_warning = ""

\* a historical run wrote a batch whose newest record was three hours old
C8_Witness ==
  /\ pc = "returned"
  /\ Historical
  /\ Assessed
  /\ run.writes # <<>>
  /\ AgeOfNewest >= 3 * 4 * QuarterHour
  /\ run.max_dt_warning = ""

\* C9: a non-empty batch of records with native datetimes is written, one
\* row per record under the record's datetime, to the measurement of its
\* data type and zone, whatever the freshness of the batch.
C9_StaleStillWritten ==
  (/\ pc = "returned"
   /\ Valid(run.env.res)
   /\ run.env.fault \in {"none", "print"}
   /\ run.caught # "ParserError")
    => /\ Len(run.writes) = 1
       /\ run.writes[1].measurement \in {run.data_type, run.data_type \o run.zone}
       /\ Len(run.writes[1].points) = Len(Batch(run.env.res))
       /\ \A i \in 1..Len(Batch(run.env.res)) :
            /\ run.writes[1].points[i].index = Batch(run.env.res)[i].v["datetime"]
            /\ "datetime" \notin DOMAIN run.writes[1].points[i].columns

\* a live run found its batch stale and has written both of its rows
C9_Witness ==
  /\ pc = "returned"
  /\ run.given = None
  /\ run.max_dt_warning = Stale
  /\ Len(run.writes) = 1
  /\ Len(run.writes[1].points) = 2
  /\ run.printed = "Fetched"

\* the positions of the ids k+1, k+2, ... of the registered jobs
Suffix(k) == [i \in 1..(Len(Registered) - k) |-> k + i]

\* C10: the warm-up pass runs the registered jobs one after the other in
\* registration order, each one once and whatever its cadence, a failure in
\* it stops neither the pass nor the program, and the polling loop is
\* entered only when every job has run.
C10_WarmUp ==
  /\ pc # "crashed"
  /\ pc = "run_all" =>
       \E k \in 0..Len(Registered) :
          /\ queue = Suffix(k)
          /\ cur \in {0, k}
          /\ \A i \in 1..Len(jobs) :
               jobs[i].last_run # None <=> (jobs[i].id <= k /\ jobs[i].id # cur)
  /\ pc \in {"loop", "run_pending", "sleep"} =>
       \A i \in 1..Len(jobs) : jobs[i].last_run # None

\* the last job of the warm-up pass failed, every job has run, none was due
C10_Witness ==
  /\ pc = "run_all"
  /\ queue = <<>>
  /\ cur = 0
  /\ run.job = Len(Registered)
  /\ run.caught # "none"
  /\ Len(jobs) = Len(Registered)
  /\ \A i \in 1..Len(jobs) : jobs[i].last_run # None /\ jobs[i].next_run > 0

(***************************************************************************)
(* Liveness is checked for runs that take less than a quantum.             *)
(* Fairness: the program keeps executing, every job run terminates, and    *)
(* the clock keeps advancing, so that of the sleeps of the loop infinitely *)
(* many end in a later quantum.  The returns Finish(env) of a run are      *)
(* enabled together and each one ends the run, so weak fairness of one of  *)
(* them states that no run lasts for ever.                                 *)
(***************************************************************************)
Quick == [fault |-> "none", res |-> None, took |-> 0]

Punctual == \E env \in {e \in RunEnvs : e.took = 0} : Finish(env)

FairNext ==
  \/ Start
  \/ Punctual
  \/ RunAllDone
  \/ RunPending
  \/ RunPendingDone
  \/ SleepWithin
  \/ SleepAcross

FairSpec ==
  /\ Init /\ [][FairNext]_vars
  /\ WF_vars(Start)
  /\ WF_vars(Finish(Quick))
  /\ WF_vars(RunAllDone)
  /\ WF_vars(RunPending)
  /\ WF_vars(RunPendingDone)
  /\ SF_vars(SleepAcross)

\* the run of job j that has just returned raised, and the guard caught it
Failed(j) == run.job = j /\ run.caught # "none"

\* C1: under the default policy a job whose run raises, at whatever stage,
\* does not stop the program, and the polling loop starts that job again.
C1_FailedJobRunsAgain ==
  /\ [](pc # "crashed")
  /\ \A j \in 1..Len(Registered) :
       Failed(j) ~> (pc = "run_pending" /\ cur = j)

\* a twelve-hourly job, started again by the polling loop, failed in its
\* write and is still registered
C1_Witness ==
  /\ run.job = 1
  /\ run.pass = "run_pending"
  /\ run.caught = "WriteError"
  /\ pc = "run_pending"
  /\ 1 \in Ids(jobs)

\* the ids in the sequence q
Range(q) == {q[i] : i \in 1..Len(q)}

\* C2: a job under the cancelling policy whose run raises is removed from
\* the scheduler at once, in the warm-up pass as in the polling loop, and is
\* never registered or started again; no other job is ever removed, and each
\* call of run_pending starts all the registered jobs that are due.
C2_CancelOnFailure ==
  [][/\ Ids(jobs') \subseteq Ids(jobs)
     /\ \A id \in Ids(jobs) \ Ids(jobs') :
          cur = id /\ run'.job = id /\ run'.cancel_on_failure /\ run'.caught # "none"
     /\ (cur # 0 /\ cur' = 0 /\ run'.cancel_on_failure /\ run'.caught # "none")
          => cur \notin Ids(jobs')
     /\ Range(queue') \subseteq Ids(jobs')
     /\ cur' # 0 => cur' \in Ids(jobs')
     /\ (pc = "loop" /\ pc' = "run_pending")
          => Range(queue') = {jobs[i].id : i \in {k \in 1..Len(jobs) : jobs[k].next_run <= 0}}
    ]_vars

\* after the failure of the first quarter-hourly job under the cancelling
\* policy, the polling loop starts the second one
C2_Witness ==
  /\ 3 \notin Ids(jobs)
  /\ pc = "run_pending"
  /\ cur = 4

\* the jobs of the current pass that are running or still to be started, in
\* the order in which the pass starts them
Pending == (IF cur # 0 THEN <<cur>> ELSE <<>>) \o queue

\* the job with the id as the scheduler holds it
JobOf(id) == jobs[IndexOf(jobs, id)]

\* C11 as stated: the jobs that a polling tick finds due are started in
\* registration order.
C11_RegistrationOrder ==
  pc = "run_pending" =>
    \A p, q \in 1..Len(Pending) : p < q => Pending[p] < Pending[q]

\* C11 as amended: the jobs that a polling tick finds due are started in the
\* order of their due times, and in registration order where these are equal.
C11_NextRunOrder ==
  pc = "run_pending" =>
    \A p, q \in 1..Len(Pending) :
       p < q =>
         \/ JobOf(Pending[p]).next_run < JobOf(Pending[q]).next_run
         \/ /\ JobOf(Pending[p]).next_run = JobOf(Pending[q]).next_run
            /\ Pending[p] < Pending[q]

\* a tick found a quarter-hourly job and a twelve-hourly job registered
\* before it due, and starts the quarter-hourly one first
C11_Witness ==
  /\ pc = "run_pending"
  /\ cur = 0
  /\ Len(queue) >= 2
  /\ JobOf(queue[1]).interval = QuarterHour
  /\ JobOf(queue[2]).interval = TwelveHours
  /\ queue[2] < queue[1]
  /\ JobOf(queue[1]).next_run < JobOf(queue[2]).next_run

\* C12: job runs do not overlap: a job is started only when none is running,
\* the only step of a running job is its return, and neither the pass nor
\* the polling loop moves on while a job is running.
C12_Serialized ==
  [][/\ (cur' # 0 /\ cur' # cur) => (cur = 0 /\ pc \in {"run_all", "run_pending"})
     /\ cur # 0 => /\ cur' = 0
                   /\ run'.job = cur
                   /\ pc' \in {pc, "crashed"}
                   /\ queue' \in {queue, <<>>}
     /\ pc' \in {"loop", "sleep"} => cur' = 0
    ]_vars

\* a job of the polling loop is running while another due job waits for it
C12_Witness ==
  /\ pc = "run_pending"
  /\ cur # 0
  /\ queue # <<>>
  /\ JobOf(Head(queue)).next_run <= 0

\* the time since the last run of the job with the id
Elapsed(id) == 0 - JobOf(id).last_run.v

\* C13: the polling loop starts a job only when at least its cadence has
\* passed since its last run; a run that returned, whether it succeeded, did
\* nothing or failed, leaves its job due one cadence later and out of the
\* current pass; and no run writes more than once.
C13_DueOnly ==
  /\ (pc = "run_pending" /\ cur # 0) =>
        /\ JobOf(cur).last_run # None
        /\ Elapsed(cur) >= JobOf(cur).interval
  /\ (run.job # 0 /\ run.job \in Ids(jobs)) =>
        /\ JobOfRun.next_run = JobOfRun.interval
        /\ Elapsed(run.job) = 0
        /\ run.job \notin Range(queue)
        /\ cur = 0
  /\ Len(run.writes) <= 1
  /\ run.caught = "WriteError" => run.writes = <<>>

\* a quarter-hourly job failed in its write in the polling loop and is due a
\* quarter of an hour later
C13_Witness ==
  /\ run.job # 0
  /\ run.pass = "run_pending"
  /\ run.caught = "WriteError"
  /\ run.writes = <<>>
  /\ JobOfRun.interval = QuarterHour
  /\ JobOfRun.next_run = QuarterHour

\* the zones that name a pair of endpoints
Pairs == {"AT->CH", "AT->IT-NO"}

\* C14: for exchange and exchangeForecast the parser is looked up under the
\* data type and the unsplit pair X->Y and called with the endpoints X and Y
\* as two positional arguments; for the other data types it is called with
\* the zone as its only argument; the target datetime goes with either.
C14_CallArguments ==
  run.called =>
    /\ run.key = <<run.data_type, run.zone>>
    /\ IF run.data_type \in {"exchange", "exchangeForecast"} /\ run.zone \in Pairs
       THEN /\ Len(run.args) = 2
            /\ run.args[1] \o "->" \o run.args[2] = run.zone
            /\ run.args[1] = "AT"
       ELSE run.args = <<run.zone>>
    /\ run.given = None => run.target_datetime = None
    /\ run.given = Str("2018-05-30 15:00") => run.target_datetime.t = "datetime"

\* the exchange forecast of AT->IT-NO was fetched for a target datetime with
\* the endpoints AT and IT-NO
C14_Witness ==
  /\ pc = "returned"
  /\ run.called
  /\ run.data_type = "exchangeForecast"
  /\ run.key = <<"exchangeForecast", "AT->IT-NO">>
  /\ run.args = <<"AT", "IT-NO">>
  /\ run.target_datetime.t = "datetime"

\* the keys of the record and the values under them, one level of nesting
\* spelled out
Leaves(rec) ==
  {<<k, rec.v[k]>> : k \in {k \in DOMAIN rec.v : rec.v[k].t # "dict"}}
    \cup UNION {{<<k \o "_" \o n, rec.v[k].v[n]>> : n \in DOMAIN rec.v[k].v} :
                  k \in {k \in DOMAIN rec.v : rec.v[k].t = "dict"}}

\* C15: the frame made of a valid result, a single record or a list or tuple
\* of records, has one row per record in the order of the records; a row is
\* indexed by the datetime of its record and its columns are the other
\* leaves of the record under their keys joined by an underscore, none of
\* them a mapping.
C15_Normalization ==
  (Valid(run.env.res) /\ Len(run.writes) = 1) =>
    LET recs == Batch(run.env.res)
        df == run.writes[1].points
    IN /\ Len(df) = Len(recs)
       /\ \A i \in 1..Len(recs) :
            /\ df[i].index = recs[i].v["datetime"]
            /\ {<<k, df[i].columns[k]>> : k \in DOMAIN df[i].columns}
                 = {l \in Leaves(recs[i]) : l[1] # "datetime"}
            /\ \A k \in DOMAIN df[i].columns : df[i].columns[k].t # "dict"

\* a tuple of one record with a nested mapping was written as one row with
\* the columns production_coal and production_gas
C15_Witness ==
  /\ pc = "returned"
  /\ run.env.res.t = "tuple"
  /\ Len(run.writes) = 1
  /\ Len(run.writes[1].points) = 1
  /\ DOMAIN run.writes[1].points[1].columns = {"production_coal", "production_gas", "source"}
  /\ run.writes[1].points[1].columns["production_coal"] = Num(10)

\* the datetime of the oldest record of a valid batch
Oldest(res) ==
  LET ds == {Batch(res)[i].v["datetime"].v : i \in 1..Len(Batch(res))}
  IN CHOOSE d \in ds : \A e \in ds : d <= e

\* C16 as stated: a run that fetched a valid batch, with no collaborator
\* failing, writes once, all rows, to the measurement of its job and reports
\* the oldest and the newest datetime of the batch as first and last; no run
\* writes more than once; a run that fetched nothing or a malformed batch
\* writes nothing.
C16_OneWriteReported ==
  /\ (pc = "returned" /\ run.called /\ run.env.fault = "none" /\ Valid(run.env.res)) =>
        /\ Len(run.writes) = 1
        /\ Len(run.writes[1].points) = Len(Batch(run.env.res))
        /\ run.writes[1].measurement =
              IF run.data_type \in {"exchange", "exchangeForecast"}
              THEN run.data_type \o run.zone
              ELSE run.data_type
        /\ run.first_dt # None
        /\ run.first_dt.v = Oldest(run.env.res)
        /\ run.last_dt # None
        /\ run.last_dt.v = Newest(run.env.res)
  /\ Len(run.writes) <= 1
  /\ ~Valid(run.env.res) => run.writes = <<>>

\* C17: the two tests for an exchange data type, the one that splits the
\* zone into the arguments of the parser and the one that appends the zone
\* to the measurement, agree on every data type: a pair is split exactly
\* when it is appended.
C17_TestsAgree ==
  (run.called /\ Len(run.writes) = 1 /\ run.zone \in Pairs) =>
     (run.args # <<run.zone>> <=> run.writes[1].measurement # run.data_type)

\* the pair of an exchange forecast was both split and appended
C17_Witness ==
  /\ pc = "returned"
  /\ run.data_type = "exchangeForecast"
  /\ run.zone = "AT->IT-NO"
  /\ Len(run.args) = 2
  /\ Len(run.writes) = 1
  /\ run.writes[1].measurement = "exchangeForecastAT->IT-NO"

\* the batch has a naive and an aware datetime
Mixed(res) ==
  \E i, k \in 1..Len(Batch(res)) :
     Batch(res)[i].v["datetime"].tz # Batch(res)[k].v["datetime"].tz

\* C18: the write precedes the freshness assessment and the log line: a run
\* that assessed or logged its batch has written it, and a run that failed
\* after the write, in min/max of the datetimes or in the log output, is
\* absorbed by the guard as a failure under its policy with its whole batch
\* written.
C18_WriteFirst ==
  pc = "returned" =>
    /\ (run.first_dt # None \/ run.last_dt # None \/ run.max_dt_warning \in {Stale, Fresh, ""})
          => Len(run.writes) = 1
    /\ run.printed = "Fetched" => Len(run.writes) = 1
    /\ ( /\ run.called
         /\ Valid(run.env.res)
         /\ \/ run.env.fault = "print"
            \/ run.env.fault = "none" /\ Mixed(run.env.res) )
          => /\ run.caught # "none"
             /\ run.printed = "traceback"
             /\ run.ret = IF run.cancel_on_failure THEN CancelJob ELSE None
             /\ Len(run.writes) = 1
             /\ Len(run.writes[1].points) = Len(Batch(run.env.res))

\* the log output of a run failed after its batch of two was written and
\* assessed as stale; the guard requested the cancellation of the job
C18_Witness ==
  /\ pc = "returned"
  /\ run.env.fault = "print"
  /\ run.caught = "OSError"
  /\ run.ret = CancelJob
  /\ run.max_dt_warning = Stale
  /\ Len(run.writes) = 1
  /\ Len(run.writes[1].points) = 2

\* C19: under the shipped policy the scheduler holds the seventeen jobs of
\* the registration at all times, in their order and with their zone, data
\* type, cadence and policy: three twelve-hourly jobs of AT, an exchange and
\* an exchangeForecast job every twelve hours for each of the six pairs, and
\* two quarter-hourly jobs of AT.
C19_JobsConstant ==
  /\ Len(jobs) = 17
  /\ \A i \in 1..Len(jobs) :
       /\ jobs[i].id = i
       /\ jobs[i].cancel_on_failure = FALSE
       /\ jobs[i].target_datetime = None
       /\ jobs[i].next_run <= jobs[i].interval
  /\ Cardinality({i \in 1..Len(jobs) :
        jobs[i].zone = "AT" /\ jobs[i].interval = TwelveHours}) = 3
  /\ Cardinality({i \in 1..Len(jobs) :
        jobs[i].zone = "AT" /\ jobs[i].interval = QuarterHour}) = 2
  /\ \A z \in Range(exchange_zones), d \in {"exchange", "exchangeForecast"} :
        Cardinality({i \in 1..Len(jobs) :
           jobs[i].zone = z /\ jobs[i].data_type = d /\ jobs[i].interval = TwelveHours}) = 1
  /\ {jobs[i].data_type : i \in {i \in 1..Len(jobs) : jobs[i].zone = "AT"}}
        = data_types \ {"exchange", "exchangeForecast"}
  /\ cur # 0 => cur \in Ids(jobs)
  /\ Range(queue) \subseteq Ids(jobs)

\* an exchange job failed in the polling loop and all seventeen jobs are
\* still registered
C19_Witness ==
  /\ run.job # 0
  /\ run.pass = "run_pending"
  /\ run.caught # "none"
  /\ run.data_type = "exchange"
  /\ Len(jobs) = 17
  /\ run.job \in Ids(jobs)

====
